---------------------------- MODULE Spec2Model ----------------------------
(***************************************************************************)
(* A model of src/fileSystem.ts (wasi-fs-access): the fd table OpenFiles,  *)
(* OpenDirectory (path resolution, open-flag handling, directory           *)
(* enumeration with a one-slot pushback) and OpenFile (cursor and lazily   *)
(* created write stream), over an in-memory model of the File System       *)
(* Access handles the code calls.                                          *)
(*                                                                         *)
(* Strings are sequences of one-character strings, so that split,          *)
(* startsWith, slice and indexing are computed and not assumed.            *)
(***************************************************************************)
EXTENDS Integers, Sequences, FiniteSets, TLC

VARIABLES
    fs,                 \* backend tree: node path -> [kind, data]
    files,              \* OpenFiles._files: fd -> open entry
    nextFd,             \* OpenFiles._nextFd
    firstNonPreopenFd,  \* OpenFiles._firstNonPreopenFd
    issued,             \* history: every fd _add has handed out so far
    expect,             \* history: content the caller's writes/resizes add up to
    last,               \* the last call made and what it returned
    dirEntries,         \* the children of the enumerated directory, in backend order
    heap,               \* the _currentIter records created and still referred to
    currentIter,        \* OpenDirectory._currentIter: index into heap, 0 = undefined
    iterators,          \* the objects getEntries returned that the caller holds: [cur, start]
    hist,               \* the latest calls made on the enumeration
    pending             \* the open calls in flight, each at one of its awaits

vars == <<fs, files, nextFd, firstNonPreopenFd, issued, expect, last,
          dirEntries, heap, currentIter, iterators, hist, pending>>

tableVars == <<fs, files, nextFd, firstNonPreopenFd, issued, expect>>
dirVars == <<dirEntries, heap, currentIter, iterators>>

-----------------------------------------------------------------------------
(* Bounds of the model *)

MaxFd == 6          \* _nextFd stops growing here
MaxOpens == 1       \* open calls of a run that tries every flag combination
MaxPreopens == 2    \* findRelPath: preopens registered at construction
MaxQueryLen == 3    \* findRelPath: every query string up to this length
MaxPathLen == 4     \* _resolve: every path string up to this length
MaxEntries == 3     \* children of the enumerated directory
MaxIterators == 1   \* objects returned by getEntries that the caller holds at a time
MaxCalls == 2       \* open calls in flight at the same time
MaxSize == 3        \* largest file size, cursor value and read length

-----------------------------------------------------------------------------
(* Program constants *)

FIRST_PREOPEN_FD == 3
File == 1
Dir == 2
FileOrDirAny == 3

\* OpenFlags (imported from ./constants): single-bit flags, a value is a set of them
Create == "Create"
Directory == "Directory"
Exclusive == "Exclusive"
Truncate == "Truncate"
OpenFlags == {Create, Directory, Exclusive, Truncate}

\* mode & bit
ModeHas(mode, bit) == (mode \div bit) % 2 = 1

-----------------------------------------------------------------------------
(* JavaScript string operations *)

Undefined == <<"undefined">>

\* s.startsWith(p)
StartsWith(s, p) == Len(p) <= Len(s) /\ SubSeq(s, 1, Len(p)) = p

\* s.slice(n)
Slice(s, n) == SubSeq(s, n + 1, Len(s))

\* s[i], 0-based
CharAt(s, i) == IF i >= 0 /\ i < Len(s) THEN s[i + 1] ELSE "undefined"

RECURSIVE SplitFrom(_, _, _)
SplitFrom(s, i, cur) ==
    IF i > Len(s) THEN <<cur>>
    ELSE IF s[i] = "/" THEN <<cur>> \o SplitFrom(s, i + 1, <<>>)
    ELSE SplitFrom(s, i + 1, Append(cur, s[i]))

\* s.split("/")
Split(s) == SplitFrom(s, 1, <<>>)

RECURSIVE StripLeadingSlashes(_)
\* s.replace(/^\/+/, "")
StripLeadingSlashes(s) ==
    IF s # <<>> /\ Head(s) = "/" THEN StripLeadingSlashes(Tail(s)) ELSE s

Front(s) == SubSeq(s, 1, Len(s) - 1)
Last(s) == s[Len(s)]

\* every string over alphabet of length at most n
StringsUpTo(alphabet, n) == UNION {[1..k -> alphabet] : k \in 0..n}

-----------------------------------------------------------------------------
(* The backend: FileSystemDirectoryHandle / FileSystemFileHandle *)

RootHandle == [kind |-> "directory", node |-> <<>>]
NoHandle == [kind |-> "none", node |-> <<>>]

\* a name the backend accepts for a child
ValidName(name) == name # <<>> /\ name # <<".">> /\ name # <<".", ".">>

\* parent.getFileHandle(name, {create}) / parent.getDirectoryHandle(name, {create})
getHandle(fsys, parent, name, kind, create) ==
    LET child == Append(parent.node, name) IN
    IF ~ValidName(name)
    THEN [err |-> "TypeError", handle |-> NoHandle, fs |-> fsys]
    ELSE IF parent.node \notin DOMAIN fsys
    THEN [err |-> "NotFoundError", handle |-> NoHandle, fs |-> fsys]
    ELSE IF child \in DOMAIN fsys
    THEN IF fsys[child].kind = kind
         THEN [err |-> "OK", handle |-> [kind |-> kind, node |-> child], fs |-> fsys]
         ELSE [err |-> "TypeMismatchError", handle |-> NoHandle, fs |-> fsys]
    ELSE IF create
    THEN [err |-> "OK", handle |-> [kind |-> kind, node |-> child],
          fs |-> (child :> [kind |-> kind, data |-> <<>>]) @@ fsys]
    ELSE [err |-> "NotFoundError", handle |-> NoHandle, fs |-> fsys]

getFileHandle(fsys, parent, name, create) == getHandle(fsys, parent, name, "file", create)

getDirectoryHandle(fsys, parent, name, create) ==
    getHandle(fsys, parent, name, "directory", create)

\* the record of one backend call
Call(fn, parent, name, create) ==
    [fn |-> fn, node |-> parent.node, name |-> name, create |-> create]

-----------------------------------------------------------------------------
(* OpenDirectory._resolve *)

RECURSIVE ResolveParts_PopBelowEmpty(_, _)
\* the loop over parts with ".." on an empty stack passed over instead of failing
ResolveParts_PopBelowEmpty(parts, resolvedParts) ==
    IF parts = <<>> THEN [err |-> "OK", parts |-> resolvedParts]
    ELSE LET item == Head(parts) IN
         IF item = <<".", ".">>
         THEN ResolveParts_PopBelowEmpty(Tail(parts),
                  IF resolvedParts = <<>> THEN <<>> ELSE Front(resolvedParts))
         ELSE IF item # <<".">>
         THEN ResolveParts_PopBelowEmpty(Tail(parts), Append(resolvedParts, item))
         ELSE ResolveParts_PopBelowEmpty(Tail(parts), resolvedParts)

RECURSIVE ResolveParts(_, _)
\* the loop over parts: ".." pops, "." is dropped, anything else is pushed
ResolveParts(parts, resolvedParts) ==
    IF parts = <<>> THEN [err |-> "OK", parts |-> resolvedParts]
    ELSE LET item == Head(parts) IN
         IF item = <<".", ".">>
         THEN IF resolvedParts = <<>>
              THEN [err |-> "NOTCAPABLE", parts |-> <<>>]
              ELSE ResolveParts(Tail(parts), Front(resolvedParts))
         ELSE IF item # <<".">>
         THEN ResolveParts(Tail(parts), Append(resolvedParts, item))
         ELSE ResolveParts(Tail(parts), resolvedParts)

RECURSIVE WalkParents(_, _, _, _)
\* for (const item of resolvedParts) parent = await parent.getDirectoryHandle(item)
WalkParents(fsys, parent, items, calls) ==
    IF items = <<>> THEN [err |-> "OK", parent |-> parent, calls |-> calls]
    ELSE LET r == getDirectoryHandle(fsys, parent, Head(items), FALSE)
             c == Append(calls, Call("getDirectoryHandle", parent, Head(items), FALSE))
         IN IF r.err # "OK"
            THEN [err |-> r.err, parent |-> NoHandle, calls |-> c]
            ELSE WalkParents(fsys, r.handle, Tail(items), c)

_resolve(fsys, handle, path) ==
    LET walked(name, w) ==
            [err |-> w.err, parent |-> w.parent, name |-> name, calls |-> w.calls]
        normalised(n) ==
            IF n.err # "OK"
            THEN [err |-> n.err, parent |-> NoHandle, name |-> Undefined, calls |-> <<>>]
            ELSE IF n.parts = <<>>
            THEN walked(Undefined, WalkParents(fsys, handle, <<>>, <<>>))
            ELSE walked(Last(n.parts), WalkParents(fsys, handle, Front(n.parts), <<>>))
    IN normalised(ResolveParts(IF path # <<>> THEN Split(path) ELSE <<>>, <<>>))

-----------------------------------------------------------------------------
(* OpenDirectory.getFileOrDir *)

\* the nested function openWithCreate(create), with mode as it is when called
openWithCreate(fsys, parent, name, mode, create) ==
    LET fc == <<Call("getFileHandle", parent, name, create)>>
        dc == <<Call("getDirectoryHandle", parent, name, create)>>
        asDirectory(d, calls) ==
            IF d.err = "TypeMismatchError"
            THEN [err |-> "NOTDIR", handle |-> NoHandle, fs |-> fsys, calls |-> calls \o dc]
            ELSE [err |-> d.err, handle |-> d.handle, fs |-> d.fs, calls |-> calls \o dc]
        asFile(f, d) ==
            IF f.err = "OK"
            THEN [err |-> "OK", handle |-> f.handle, fs |-> f.fs, calls |-> fc]
            ELSE IF f.err = "TypeMismatchError"
            THEN IF ~ModeHas(mode, Dir)
                 THEN [err |-> "ISDIR", handle |-> NoHandle, fs |-> fsys, calls |-> fc]
                 ELSE asDirectory(d, fc)
            ELSE [err |-> f.err, handle |-> NoHandle, fs |-> fsys, calls |-> fc]
    IN IF ModeHas(mode, File)
       THEN asFile(getFileHandle(fsys, parent, name, create),
                   getDirectoryHandle(fsys, parent, name, create))
       ELSE asDirectory(getDirectoryHandle(fsys, parent, name, create), <<>>)

\* lines 187-203: the Create / Exclusive decision
openByFlags(fsys, parent, name, mode, openFlags) ==
    LET exclusive(probe, made) ==
            IF probe.err = "OK"
            THEN [err |-> "EXIST", handle |-> NoHandle, fs |-> fsys, calls |-> probe.calls]
            ELSE [made EXCEPT !.calls = probe.calls \o made.calls]
    IN IF Create \in openFlags
       THEN IF Exclusive \in openFlags
            THEN exclusive(openWithCreate(fsys, parent, name, mode, FALSE),
                           openWithCreate(fsys, parent, name, mode, TRUE))
            ELSE openWithCreate(fsys, parent, name, mode, TRUE)
       ELSE openWithCreate(fsys, parent, name, mode, FALSE)

\* the Truncate step that opens and closes the stream without discarding the content
truncateByFlags_KeepContent(r, openFlags) ==
    IF r.err # "OK" \/ Truncate \notin openFlags THEN r
    ELSE IF r.handle.kind = "directory"
    THEN [r EXCEPT !.err = "ISDIR", !.handle = NoHandle]
    ELSE [r EXCEPT !.calls = r.calls \o <<Call("createWritable", r.handle, <<>>, FALSE),
                                          Call("close", r.handle, <<>>, FALSE)>>]

\* lines 204-212: the Truncate step on the handle just obtained
truncateByFlags(r, openFlags) ==
    IF r.err # "OK" \/ Truncate \notin openFlags THEN r
    ELSE IF r.handle.kind = "directory"
    THEN [r EXCEPT !.err = "ISDIR", !.handle = NoHandle]
    ELSE [r EXCEPT !.fs = [r.fs EXCEPT ![r.handle.node].data = <<>>],
                   !.calls = r.calls \o <<Call("createWritable", r.handle, <<>>, FALSE),
                                          Call("close", r.handle, <<>>, FALSE)>>]

\* getFileOrDir without the check of the Directory flag against the mode
getFileOrDir_NoModeCheck(fsys, handle, path, mode, openFlags) ==
    LET fail(r, e) == [err |-> e, handle |-> NoHandle, fs |-> fsys, calls |-> r.calls]
        withCalls(r, t) == [t EXCEPT !.calls = r.calls \o t.calls]
        resolved(r) ==
            IF r.err # "OK" THEN fail(r, r.err)
            ELSE IF r.name = Undefined
            THEN IF ModeHas(mode, Dir)
                 THEN IF openFlags \cap {Create, Exclusive} # {} THEN fail(r, "EXIST")
                      ELSE IF Truncate \in openFlags THEN fail(r, "ISDIR")
                      ELSE [err |-> "OK", handle |-> r.parent, fs |-> fsys,
                            calls |-> r.calls]
                 ELSE fail(r, "ISDIR")
            ELSE withCalls(r, truncateByFlags(
                     openByFlags(fsys, r.parent, r.name,
                                 IF Directory \in openFlags THEN Dir ELSE mode, openFlags),
                     openFlags))
    IN resolved(_resolve(fsys, handle, path))

getFileOrDir(fsys, handle, path, mode, openFlags) ==
    LET fail(r, e) == [err |-> e, handle |-> NoHandle, fs |-> fsys, calls |-> r.calls]
        withCalls(r, t) == [t EXCEPT !.calls = r.calls \o t.calls]
        resolved(r) ==
            IF r.err # "OK" THEN fail(r, r.err)
            ELSE IF r.name = Undefined
            THEN IF ModeHas(mode, Dir)
                 THEN IF openFlags \cap {Create, Exclusive} # {} THEN fail(r, "EXIST")
                      ELSE IF Truncate \in openFlags THEN fail(r, "ISDIR")
                      ELSE [err |-> "OK", handle |-> r.parent, fs |-> fsys,
                            calls |-> r.calls]
                 ELSE fail(r, "ISDIR")
            ELSE IF Directory \in openFlags /\ ~ModeHas(mode, Dir) THEN fail(r, "TypeError")
            ELSE withCalls(r, truncateByFlags(
                     openByFlags(fsys, r.parent, r.name,
                                 IF Directory \in openFlags THEN Dir ELSE mode, openFlags),
                     openFlags))
    IN resolved(_resolve(fsys, handle, path))

-----------------------------------------------------------------------------
(* OpenFile *)

NoWriter == [open |-> FALSE, buf |-> <<>>]

Min(a, b) == IF a < b THEN a ELSE b
Max(a, b) == IF a > b THEN a ELSE b

\* writer.write({type: "write", position, data}) on the stream's buffer:
\* a gap between the end and position is filled with zero bytes
WriteAt(buf, position, data) ==
    [i \in 1..Max(Len(buf), position + Len(data)) |->
        IF i > position /\ i <= position + Len(data) THEN data[i - position]
        ELSE IF i <= Len(buf) THEN buf[i]
        ELSE 0]

\* writer.truncate(size) on the stream's buffer: cut, or extend with zero bytes
TruncateTo(buf, size) == [i \in 1..size |-> IF i <= Len(buf) THEN buf[i] ELSE 0]

\* this._writer || (this._writer = await this._handle.createWritable({keepExistingData: true}))
_getWriter(entry, fsys) ==
    IF entry.writer.open THEN entry
    ELSE [entry EXCEPT !.writer = [open |-> TRUE, buf |-> fsys[entry.handle.node].data]]

write(entry, fsys, data) ==
    LET e == _getWriter(entry, fsys) IN
    [entry |-> [e EXCEPT !.writer.buf = WriteAt(e.writer.buf, e.position, data),
                         !.position = e.position + Len(data)],
     fs |-> fsys]

setSize(entry, fsys, size) ==
    LET e == _getWriter(entry, fsys) IN
    [entry |-> [e EXCEPT !.writer.buf = TruncateTo(e.writer.buf, size)], fs |-> fsys]

\* closing the stream commits its buffer as the file's content
flush(entry, fsys) ==
    IF ~entry.writer.open THEN [entry |-> entry, fs |-> fsys]
    ELSE [entry |-> [entry EXCEPT !.writer = NoWriter],
          fs |-> [fsys EXCEPT ![entry.handle.node].data = entry.writer.buf]]

\* getFile without the flush
getFile_NoFlush(entry, fsys) ==
    [entry |-> entry, fs |-> fsys, file |-> fsys[entry.handle.node].data]

getFile(entry, fsys) ==
    LET f == flush(entry, fsys) IN
    [entry |-> f.entry, fs |-> f.fs, file |-> f.fs[entry.handle.node].data]

\* read that moves the cursor by the length asked for
read_AdvanceByLen(entry, fsys, len) ==
    LET g == getFile(entry, fsys)
        slice == SubSeq(g.file, g.entry.position + 1,
                        Min(g.entry.position + len, Len(g.file)))
    IN [entry |-> [g.entry EXCEPT !.position = g.entry.position + len],
        fs |-> g.fs, data |-> slice]

read(entry, fsys, len) ==
    LET g == getFile(entry, fsys)
        slice == SubSeq(g.file, g.entry.position + 1,
                        Min(g.entry.position + len, Len(g.file)))
    IN [entry |-> [g.entry EXCEPT !.position = g.entry.position + Len(slice)],
        fs |-> g.fs, data |-> slice]

\* OpenFile.close (flush) / OpenDirectory.close (nothing)
closeEntry(entry, fsys) ==
    IF entry.isFile THEN flush(entry, fsys) ELSE [entry |-> entry, fs |-> fsys]

-----------------------------------------------------------------------------
(* OpenFiles: the fd table *)

NoEntry == [isFile |-> FALSE, path |-> <<>>, handle |-> NoHandle, id |-> 0,
            position |-> 0, writer |-> NoWriter]

\* new OpenFile(path, handle) / new OpenDirectory(path, handle); id names the object
NewEntry(path, handle, id) ==
    [isFile |-> handle.kind = "file", path |-> path, handle |-> handle, id |-> id,
     position |-> 0, writer |-> NoWriter]

Without(fls, fd) == [f \in DOMAIN fls \ {fd} |-> fls[f]]

_add(fls, nfd, path, handle) ==
    [files |-> (nfd :> NewEntry(path, handle, nfd)) @@ Without(fls, nfd),
     nextFd |-> nfd + 1,
     fd |-> nfd]

get(fls, fd) ==
    IF fd \in DOMAIN fls THEN [err |-> "OK", entry |-> fls[fd]]
    ELSE [err |-> "BADF", entry |-> NoEntry]

_take(fls, fd) ==
    LET g == get(fls, fd) IN
    IF g.err # "OK" THEN [err |-> g.err, entry |-> NoEntry, files |-> fls]
    ELSE [err |-> "OK", entry |-> g.entry, files |-> Without(fls, fd)]

\* getPreOpen without the test of the preopen range
getPreOpen_NoRangeCheck(fls, fnp, fd) == get(fls, fd)

getPreOpen(fls, fnp, fd) ==
    IF fd >= FIRST_PREOPEN_FD /\ fd < fnp THEN get(fls, fd)
    ELSE [err |-> "BADF", entry |-> NoEntry]

\* close that removes the entry without calling the entry's own close
close_WithoutEntryClose(fls, fsys, fd) ==
    LET t == _take(fls, fd) IN
    IF t.err # "OK" THEN [err |-> t.err, files |-> fls, fs |-> fsys]
    ELSE [err |-> "OK", files |-> t.files, fs |-> fsys]

close(fls, fsys, fd) ==
    LET t == _take(fls, fd) IN
    IF t.err # "OK" THEN [err |-> t.err, files |-> fls, fs |-> fsys]
    ELSE [err |-> "OK", files |-> t.files, fs |-> closeEntry(t.entry, fsys).fs]

\* renumber that skips the close when nothing occupies to
renumber_SkipCloseOfFreeTo(fls, fsys, from, to) ==
    LET moved(c, t) ==
            IF t.err # "OK" THEN [err |-> t.err, files |-> c.files, fs |-> c.fs]
            ELSE [err |-> "OK", files |-> (to :> t.entry) @@ t.files, fs |-> c.fs]
        closed(c) == moved(c, _take(c.files, from))
    IN IF to \in DOMAIN fls THEN closed(close(fls, fsys, to))
       ELSE closed([err |-> "OK", files |-> fls, fs |-> fsys])

renumber(fls, fsys, from, to) ==
    LET moved(c, t) ==
            IF t.err # "OK" THEN [err |-> t.err, files |-> c.files, fs |-> c.fs]
            ELSE [err |-> "OK", files |-> (to :> t.entry) @@ t.files, fs |-> c.fs]
        closed(c) ==
            IF c.err # "OK" THEN [err |-> c.err, files |-> fls, fs |-> fsys]
            ELSE moved(c, _take(c.files, from))
    IN closed(close(fls, fsys, to))

open(fls, nfd, fsys, preOpen, path, openFlags) ==
    LET added(r, a) ==
            [err |-> "OK", fd |-> a.fd, files |-> a.files, nextFd |-> a.nextFd, fs |-> r.fs]
        got(r) ==
            IF r.err # "OK"
            THEN [err |-> r.err, fd |-> 0, files |-> fls, nextFd |-> nfd, fs |-> r.fs]
            ELSE added(r, _add(fls, nfd, preOpen.path \o <<"/">> \o path, r.handle))
    IN got(getFileOrDir(fsys, preOpen.handle, path, FileOrDirAny, openFlags))

RECURSIVE AddAll(_, _, _)
\* for (const path in preOpen) this._add(path, preOpen[path])
AddAll(fls, nfd, preOpen) ==
    IF preOpen = <<>> THEN [files |-> fls, nextFd |-> nfd]
    ELSE LET a == _add(fls, nfd, Head(preOpen).path, Head(preOpen).handle)
         IN AddAll(a.files, a.nextFd, Tail(preOpen))

\* new OpenFiles(preOpen): preOpen is the mapping, in insertion order
Construct(preOpen) == AddAll(<<>>, FIRST_PREOPEN_FD, preOpen)

-----------------------------------------------------------------------------
(* The fd table as a state machine: open, close and renumber calls, each    *)
(* run to completion, on a table constructed over a small backend tree.     *)
(* The directory given to open is one getPreOpen returns.                   *)

DirNode == [kind |-> "directory", data |-> <<>>]
FileNode(data) == [kind |-> "file", data |-> data]

\* backend trees the runs start from: empty; a file a; a directory a holding a file b
InitialTrees ==
    { (<<>> :> DirNode),
      (<<>> :> DirNode) @@ (<< <<"a">> >> :> FileNode(<<1>>)),
      (<<>> :> DirNode) @@ (<< <<"a">> >> :> DirNode)
                        @@ (<< <<"a">>, <<"b">> >> :> FileNode(<<1>>)) }

\* the preOpen mappings the table is constructed with
PreOpens ==
    { << [path |-> <<"/", "a">>, handle |-> RootHandle] >>,
      << [path |-> <<"/", "a">>, handle |-> RootHandle],
         [path |-> <<"/", "a", "/", "b">>, handle |-> RootHandle] >> }

\* the paths given to open: "", "a", "a/b", "../a"
OpenPaths ==
    { <<>>, <<"a">>, <<"a", "/", "b">>, <<".", ".", "/", "a">> }

\* the open calls of the table's runs: open or create a file or a directory
TablePaths == { <<>>, <<"a">>, <<"a", "/", "b">> }
TableFlags == { {}, {Create}, {Create, Directory} }

\* fds given to the calls: a reserved one, every one open can have allocated,
\* and one it has not
Fds == (FIRST_PREOPEN_FD - 1)..(MaxFd - 1)

IdleDir ==
    /\ dirEntries = <<>>
    /\ heap = <<>>
    /\ currentIter = 0
    /\ iterators = <<>>
    /\ hist = <<>>
    /\ pending = <<>>

Init ==
    \E tree \in InitialTrees, preOpen \in PreOpens :
        LET c == Construct(preOpen) IN
        /\ fs = tree
        /\ files = c.files
        /\ nextFd = c.nextFd
        /\ firstNonPreopenFd = c.nextFd
        /\ issued = DOMAIN c.files
        /\ expect = <<>>
        /\ last = [op |-> "new"]
        /\ IdleDir

\* one call of OpenFiles.open, run to completion
OpenCall(dirfd, path, openFlags) ==
    /\ getPreOpen(files, firstNonPreopenFd, dirfd).err = "OK"
    /\ ~files[dirfd].isFile
    /\ \E r \in {open(files, nextFd, fs, files[dirfd], path, openFlags)} :
       /\ files' = r.files
       /\ nextFd' = r.nextFd
       /\ fs' = r.fs
       /\ issued' = IF r.err = "OK" THEN issued \cup {r.fd} ELSE issued
       /\ last' = [op |-> "open", dirfd |-> dirfd, path |-> path,
                   openFlags |-> openFlags, err |-> r.err, fd |-> r.fd]
    /\ UNCHANGED <<pending, firstNonPreopenFd, expect, dirVars, hist>>

Open ==
    \E dirfd \in Fds, path \in TablePaths, openFlags \in TableFlags :
        /\ nextFd < MaxFd
        /\ OpenCall(dirfd, path, openFlags)

Close ==
    \E fd \in Fds :
        /\ LET r == close(files, fs, fd) IN
           /\ files' = r.files
           /\ fs' = r.fs
           /\ last' = [op |-> "close", fd |-> fd, err |-> r.err]
        /\ UNCHANGED <<pending, nextFd, firstNonPreopenFd, issued, expect, dirVars, hist>>

Renumber ==
    \E from \in Fds, to \in Fds :
        /\ LET r == renumber(files, fs, from, to) IN
           /\ files' = r.files
           /\ fs' = r.fs
           /\ last' = [op |-> "renumber", from |-> from, to |-> to, err |-> r.err]
        /\ UNCHANGED <<pending, nextFd, firstNonPreopenFd, issued, expect, dirVars, hist>>

Next == Open \/ Close \/ Renumber

Spec == Init /\ [][Next]_vars

-----------------------------------------------------------------------------
(* open alone, with every path and every combination of open flags *)

OpenAny ==
    \E dirfd \in Fds, path \in OpenPaths, openFlags \in SUBSET OpenFlags :
        /\ nextFd < firstNonPreopenFd + MaxOpens
        /\ OpenCall(dirfd, path, openFlags)

NextOpen == OpenAny

SpecOpen == Init /\ [][NextOpen]_vars

-----------------------------------------------------------------------------
(* Claims about the fd table *)

\* C1: every fd a successful open returns is at least 3, is greater than every
\* fd handed out before it (at construction or by an earlier open) and is not
\* occupied by any entry when it is allocated, whatever close and renumber calls
\* came before.
C1_OpenReturnsFreshFd ==
    [][ (last'.op = "open" /\ last'.err = "OK") =>
            /\ last'.fd >= FIRST_PREOPEN_FD
            /\ last'.fd \notin DOMAIN files
            /\ \A f \in issued : f < last'.fd
            /\ last'.fd \in DOMAIN files' ]_vars

\* C1 witness: an open has succeeded after a renumber moved an entry to another
\* fd and left a descriptor number free.
C1_Witness ==
    /\ last.op = "open"
    /\ last.err = "OK"
    /\ \E f \in issued : f \notin DOMAIN files
    /\ \E f \in DOMAIN files : files[f].id # f

\* C2 as claimed: renumber(from, to) with from occupied and to any other fd,
\* occupied or not, succeeds; afterwards the entry that was at from is at to,
\* from is gone and every other entry is unchanged.
C2_RenumberSucceedsForAnyTo ==
    [][ (last'.op = "renumber" /\ last'.from \in DOMAIN files
            /\ last'.from # last'.to) =>
            /\ last'.err = "OK"
            /\ DOMAIN files' = (DOMAIN files \ {last'.from}) \cup {last'.to}
            /\ files'[last'.to] = files[last'.from]
            /\ \A f \in DOMAIN files \ {last'.from, last'.to} : files'[f] = files[f] ]_vars

\* whether the leaf that path names under the directory at dirfd exists in fsys
LeafExists(fsys, fls, dirfd, path) ==
    LET r == _resolve(fsys, fls[dirfd].handle, path) IN
    /\ r.err = "OK"
    /\ r.name # Undefined
    /\ Append(r.parent.node, r.name) \in DOMAIN fsys

\* C3 as claimed: an open with Create and Exclusive fails with AlreadyExists
\* whenever the named leaf exists in the parent directory, whatever the kind of
\* the entry and whatever the other flags are.
C3_ExclusiveOnExistingFailsExist ==
    [][ (last'.op = "open" /\ {Create, Exclusive} \subseteq last'.openFlags
            /\ LeafExists(fs, files, last'.dirfd, last'.path)) =>
            last'.err = "EXIST" ]_vars

-----------------------------------------------------------------------------
(* OpenDirectory.getEntries: the enumeration cursor with a one-slot pushback *)

Names == <<"a", "b", "c", "d", "e", "f">>
NoReverted == "undefined"
Done == "done"

\* the record getEntries stores in this._currentIter; iter counts the items
\* already drawn from this._handle.values()
NewIter == [pos |-> 0, reverted |-> NoReverted, iter |-> 0]

\* a record nothing refers to any more, and a slot holding no object
FreeIter == [pos |-> 0, reverted |-> NoReverted, iter |-> -1]
NoIterator == [cur |-> 0, start |-> 0]

\* the records still referred to by this._currentIter or by an object the caller holds
Live(its, cur) == {its[k].cur : k \in DOMAIN its} \cup {cur}

Collect(hp, its, cur) == [i \in DOMAIN hp |-> IF i \in Live(its, cur) THEN hp[i] ELSE FreeIter]

\* getEntries(start); the caller keeps the returned object in place of the one it
\* held in slot
getEntries(hp, cur, its, slot, start) ==
    LET dropped == [its EXCEPT ![slot] = NoIterator] IN
    IF cur = 0 \/ hp[cur].pos # start
    THEN LET id == CHOOSE i \in DOMAIN hp :
                      /\ i \notin Live(dropped, 0)
                      /\ \A j \in DOMAIN hp : j \notin Live(dropped, 0) => i <= j
             its1 == [dropped EXCEPT ![slot] = [cur |-> id, start |-> start]]
         IN [heap |-> Collect([hp EXCEPT ![id] = NewIter], its1, id),
             currentIter |-> id,
             iterators |-> its1,
             res |-> "restart"]
    ELSE LET its1 == [dropped EXCEPT ![slot] = [cur |-> cur, start |-> 0]]
         IN [heap |-> Collect(hp, its1, cur),
             currentIter |-> cur,
             iterators |-> its1,
             res |-> "continue"]

\* next() that hands the reverted entry back without clearing the slot
next_KeepReverted(hp, its, entries, o) ==
    LET c == its[o].cur
        skipped == Min(hp[c].iter + its[o].start, Len(entries))
        its1 == [its EXCEPT ![o].start = 0]
    IN IF hp[c].reverted # NoReverted
       THEN [heap |-> [hp EXCEPT ![c].iter = skipped, ![c].pos = hp[c].pos + 1],
             iterators |-> its1, res |-> hp[c].reverted, src |-> "reverted"]
       ELSE IF skipped < Len(entries)
       THEN [heap |-> [hp EXCEPT ![c].iter = skipped + 1, ![c].pos = hp[c].pos + 1],
             iterators |-> its1, res |-> entries[skipped + 1], src |-> "iter"]
       ELSE [heap |-> [hp EXCEPT ![c].iter = skipped],
             iterators |-> its1, res |-> Done, src |-> "iter"]

\* next() of the object o that getEntries returned
next(hp, its, entries, o) ==
    LET c == its[o].cur
        \* for (; start; start--) await currentIter.iter.next()
        skipped == Min(hp[c].iter + its[o].start, Len(entries))
        its1 == [its EXCEPT ![o].start = 0]
    IN IF hp[c].reverted # NoReverted
       THEN [heap |-> [hp EXCEPT ![c].iter = skipped, ![c].reverted = NoReverted,
                                 ![c].pos = hp[c].pos + 1],
             iterators |-> its1, res |-> hp[c].reverted, src |-> "reverted"]
       ELSE IF skipped < Len(entries)
       THEN [heap |-> [hp EXCEPT ![c].iter = skipped + 1, ![c].pos = hp[c].pos + 1],
             iterators |-> its1, res |-> entries[skipped + 1], src |-> "iter"]
       ELSE [heap |-> [hp EXCEPT ![c].iter = skipped],
             iterators |-> its1, res |-> Done, src |-> "iter"]

\* revert(handle) of the object o that getEntries returned
revert(hp, its, o, handle) ==
    LET c == its[o].cur IN
    IF hp[c].reverted # NoReverted \/ hp[c].pos = 0
    THEN [err |-> "Error", heap |-> hp]
    ELSE [err |-> "OK",
          heap |-> [hp EXCEPT ![c].pos = hp[c].pos - 1, ![c].reverted = handle]]

\* The history kept of the calls on the enumeration: the longest run of the
\* latest calls that is the beginning of one of
\*   getEntries(start), next() on the object it returned
\*   next(), revert(the entry it returned), next(), next() on one object
Remember(h, call) ==
    IF call.op = "getEntries" THEN <<call>>
    ELSE IF call.op = "next"
    THEN IF h # <<>> /\ Last(h).op = "getEntries" /\ Last(h).obj = call.obj
         THEN <<Last(h), call>>
         ELSE IF Len(h) \in {2, 3} /\ h[2].op = "revert" /\ h[1].obj = call.obj
         THEN Append(h, call)
         ELSE <<call>>
    ELSE IF h # <<>> /\ Last(h).op = "next" /\ Last(h).obj = call.obj
            /\ call.res = "OK" /\ call.arg = Last(h).res
         THEN <<Last(h), call>>
         ELSE <<>>

IdleTable ==
    /\ fs = (<<>> :> DirNode)
    /\ files = <<>>
    /\ nextFd = FIRST_PREOPEN_FD
    /\ firstNonPreopenFd = FIRST_PREOPEN_FD
    /\ issued = {}
    /\ expect = <<>>

InitEntries ==
    /\ IdleTable
    /\ last = [op |-> "new"]
    /\ \E n \in 0..MaxEntries : dirEntries = SubSeq(Names, 1, n)
    /\ heap = [i \in 1..(MaxIterators + 1) |-> FreeIter]
    /\ currentIter = 0
    /\ iterators = [k \in 1..MaxIterators |-> NoIterator]
    /\ hist = <<>>
    /\ pending = <<>>

GetEntries ==
    \E slot \in DOMAIN iterators, start \in 0..MaxEntries :
        /\ LET r == getEntries(heap, currentIter, iterators, slot, start) IN
           /\ heap' = r.heap
           /\ currentIter' = r.currentIter
           /\ iterators' = r.iterators
           /\ last' = [op |-> "getEntries", obj |-> slot,
                       arg |-> start, res |-> r.res, src |-> "none"]
           /\ hist' = Remember(hist, last')
        /\ UNCHANGED <<pending, tableVars, dirEntries>>

Advance ==
    \E o \in DOMAIN iterators :
        /\ iterators[o] # NoIterator
        /\ LET r == next(heap, iterators, dirEntries, o) IN
           /\ heap' = r.heap
           /\ iterators' = r.iterators
           /\ last' = [op |-> "next", obj |-> o, arg |-> 0, res |-> r.res, src |-> r.src]
           /\ hist' = Remember(hist, last')
        /\ UNCHANGED <<pending, tableVars, dirEntries, currentIter>>

\* the entries the caller gives to revert: the one its latest next() returned, or
\* another one (the directory's first child)
RevertArgs ==
    (IF last.op = "next" /\ last.res # Done THEN {last.res} ELSE {})
        \cup (IF dirEntries # <<>> THEN {dirEntries[1]} ELSE {})

Revert ==
    \E o \in DOMAIN iterators, handle \in RevertArgs :
        /\ iterators[o] # NoIterator
        /\ LET r == revert(heap, iterators, o, handle) IN
           /\ heap' = r.heap
           /\ last' = [op |-> "revert", obj |-> o, arg |-> handle,
                       res |-> r.err, src |-> "none"]
           /\ hist' = Remember(hist, last')
        /\ UNCHANGED <<pending, tableVars, dirEntries, currentIter, iterators>>

NextEntries == GetEntries \/ Advance \/ Revert

SpecEntries == InitEntries /\ [][NextEntries]_vars

-----------------------------------------------------------------------------
(* Claims about directory enumeration *)

\* the entry e_k of the directory, or done past the end (k counts from 0)
EntryOrDone(k) == IF k < Len(dirEntries) THEN dirEntries[k + 1] ELSE Done

\* the entry that follows e in backend order, or done
Following(e) ==
    LET k == CHOOSE i \in DOMAIN dirEntries : dirEntries[i] = e IN EntryOrDone(k)

\* C4 as claimed: after getEntries(start) restarted the cursor, the first next()
\* returns e_start (done if start >= n) and leaves the live position at start+1;
\* and after a getEntries(p) that matched the live position, a next() that draws
\* from the backend returns e_p (done if p >= n).
C4_RestartSkipsToStart ==
    (Len(hist) = 2 /\ hist[1].op = "getEntries" /\ hist[2].op = "next") =>
        LET g == hist[1]
            a == hist[2]
            c == iterators[a.obj].cur
        IN /\ g.res = "restart" =>
                /\ a.res = EntryOrDone(g.arg)
                /\ a.res # Done => heap[c].pos = g.arg + 1
           /\ (g.res = "continue" /\ a.src = "iter") => a.res = EntryOrDone(g.arg)

\* C5: on one enumeration object, a successful revert(entry) makes the next
\* next() return that entry, and, when the entry is the one the preceding next()
\* drew from the backend, the next() after that returns the entry following it in
\* backend order (done after the last); revert fails exactly when an entry is
\* already pending or the position is 0, and a failed revert changes neither the
\* position nor the pending slot.
C5_RevertGivesEntryBack ==
    [][ /\ (Len(hist') >= 3 /\ hist'[2].op = "revert") => hist'[3].res = hist'[2].arg
        /\ (Len(hist') = 4 /\ hist'[2].op = "revert" /\ hist'[1].src = "iter") =>
                hist'[4].res = Following(hist'[1].res)
        /\ last'.op = "revert" =>
                LET c == iterators[last'.obj].cur IN
                /\ last'.res = "Error" <=> (heap[c].reverted # NoReverted \/ heap[c].pos = 0)
                /\ last'.res = "Error" => heap' = heap
                /\ last'.res = "OK" =>
                      /\ heap'[c].pos = heap[c].pos - 1
                      /\ heap'[c].reverted = last'.arg ]_vars

\* C5 witness: on [a, b, c], b was consumed, reverted, read again and followed by c.
C5_Witness ==
    /\ dirEntries = <<"a", "b", "c">>
    /\ Len(hist) = 4
    /\ hist[1].op = "next" /\ hist[1].src = "iter" /\ hist[1].res = "b"
    /\ hist[2].op = "revert" /\ hist[2].res = "OK"
    /\ hist[3].res = "b"
    /\ hist[4].res = "c"

-----------------------------------------------------------------------------
(* One OpenFile: write, setSize, read, flush and getFile calls, one at a time, *)
(* and assignments to its public position.                                      *)

\* the byte sequences given to write
WriteData == {<<1>>, <<2>>, <<1, 2>>, <<2, 1>>}

\* the contents the file starts with
InitialContents == {<<>>, <<2, 2>>}

FileName == <<"f">>

\* The history kept for the scenario "empty file, write(data) at 0, cursor back
\* to 0, then reads": the data written, the chunks read so far and the sum of the
\* lengths asked for (counted up to MaxSize).
FreshScenario == [phase |-> "fresh", data |-> <<>>, chunks |-> <<>>, asked |-> 0]
OffScenario == [phase |-> "off", data |-> <<>>, chunks |-> <<>>, asked |-> 0]

InitFile ==
    \E content \in InitialContents,
       c \in {Construct(<< [path |-> <<"/">>, handle |-> RootHandle] >>)} :
        \E o \in {open(c.files, c.nextFd,
                       (<<>> :> DirNode) @@ (<<FileName>> :> FileNode(content)),
                       c.files[FIRST_PREOPEN_FD], FileName, {})} :
           /\ fs = o.fs
           /\ files = o.files
           /\ nextFd = o.nextFd
           /\ firstNonPreopenFd = c.nextFd
           /\ issued = DOMAIN o.files
           /\ expect = content
           /\ last = [op |-> "new"]
           /\ hist = IF content = <<>> THEN FreshScenario ELSE OffScenario
           /\ dirEntries = <<>>
           /\ heap = <<>>
           /\ currentIter = 0
           /\ iterators = <<>>
           /\ pending = <<>>

OpenFileFds == {fd \in DOMAIN files : files[fd].isFile}

fileFrame == <<nextFd, firstNonPreopenFd, issued, dirVars, pending>>

\* one call of OpenFile.write on the entry at fd
WriteCall(fd, data) ==
    /\ files[fd].position + Len(data) <= MaxSize
    /\ \E r \in {write(files[fd], fs, data)} :
       /\ files' = [files EXCEPT ![fd] = r.entry]
       /\ fs' = r.fs
       /\ expect' = WriteAt(expect, files[fd].position, data)
       /\ last' = [op |-> "write", fd |-> fd, data |-> data]
       /\ hist' = IF hist.phase = "fresh" /\ files[fd].position = 0
                  THEN [hist EXCEPT !.phase = "written", !.data = data]
                  ELSE OffScenario
    /\ UNCHANGED fileFrame

Write ==
    \E fd \in OpenFileFds, data \in WriteData : WriteCall(fd, data)

SetSize ==
    \E fd \in OpenFileFds, size \in 0..MaxSize :
        /\ LET r == setSize(files[fd], fs, size) IN
           /\ files' = [files EXCEPT ![fd] = r.entry]
           /\ fs' = r.fs
           /\ expect' = TruncateTo(expect, size)
           /\ last' = [op |-> "setSize", fd |-> fd, size |-> size]
           /\ hist' = OffScenario
        /\ UNCHANGED fileFrame

Read ==
    \E fd \in OpenFileFds, len \in 0..MaxSize :
        /\ LET r == read(files[fd], fs, len) IN
           /\ files' = [files EXCEPT ![fd] = r.entry]
           /\ fs' = r.fs
           /\ last' = [op |-> "read", fd |-> fd, len |-> len, data |-> r.data,
                       forced |-> files[fd].writer.open]
           /\ hist' = IF hist.phase = "reading"
                      THEN [hist EXCEPT !.chunks = hist.chunks \o r.data,
                                        !.asked = Min(hist.asked + len, MaxSize)]
                      ELSE OffScenario
        /\ UNCHANGED <<expect, fileFrame>>

Flush ==
    \E fd \in OpenFileFds :
        /\ LET r == flush(files[fd], fs) IN
           /\ files' = [files EXCEPT ![fd] = r.entry]
           /\ fs' = r.fs
           /\ last' = [op |-> "flush", fd |-> fd]
           /\ hist' = OffScenario
        /\ UNCHANGED <<expect, fileFrame>>

GetFile ==
    \E fd \in OpenFileFds :
        /\ LET r == getFile(files[fd], fs) IN
           /\ files' = [files EXCEPT ![fd] = r.entry]
           /\ fs' = r.fs
           /\ last' = [op |-> "getFile", fd |-> fd, file |-> r.file,
                       forced |-> files[fd].writer.open]
           /\ hist' = OffScenario
        /\ UNCHANGED <<expect, fileFrame>>

\* the caller assigns the public field position
SetPosition ==
    \E fd \in OpenFileFds, position \in 0..MaxSize :
        /\ files' = [files EXCEPT ![fd].position = position]
        /\ last' = [op |-> "position", fd |-> fd, position |-> position]
        /\ hist' = IF hist.phase = "written" /\ position = 0
                   THEN [hist EXCEPT !.phase = "reading"]
                   ELSE OffScenario
        /\ UNCHANGED <<fs, expect, fileFrame>>

NextFile == Write \/ SetSize \/ Read \/ Flush \/ GetFile \/ SetPosition

SpecFile == InitFile /\ [][NextFile]_vars

-----------------------------------------------------------------------------
(* Claims about OpenFile *)

IsPrefix(s, t) == Len(s) <= Len(t) /\ SubSeq(t, 1, Len(s)) = s

\* C6: on an empty file, after write(data) at cursor 0 and the cursor set back
\* to 0, the chunks returned by any sequence of reads concatenate to a prefix of
\* data, and to data once the lengths asked for sum to |data| or more; every read
\* moves the cursor by the number of bytes it returned, and a read at or past the
\* end returns no bytes.
C6_ChunkedReadsRebuildData ==
    [][ /\ hist'.phase = "reading" =>
                /\ IsPrefix(hist'.chunks, hist'.data)
                /\ hist'.asked >= Len(hist'.data) => hist'.chunks = hist'.data
        /\ last'.op = "read" =>
                /\ files'[last'.fd].position =
                        files[last'.fd].position + Len(last'.data)
                /\ Len(last'.data) <= last'.len
                /\ files[last'.fd].position >= Len(expect) => last'.data = <<>> ]_vars

\* C6 witness: <<2, 1>> was written to the empty file, read back whole in chunks,
\* and a further read at the end returned no bytes.
C6_Witness ==
    /\ hist.phase = "reading"
    /\ hist.data = <<2, 1>>
    /\ hist.chunks = <<2, 1>>
    /\ last.op = "read"
    /\ last.len = 1
    /\ last.data = <<>>

\* C7: the snapshot getFile returns, and read slices, holds every write and
\* setSize made before it, with no flush by the caller; when it returns the
\* OpenFile has no active write stream.
C7_SnapshotSeesEveryWrite ==
    last.op \in {"getFile", "read"} =>
        LET e == files[last.fd] IN
        /\ ~e.writer.open
        /\ fs[e.handle.node].data = expect
        /\ last.op = "getFile" => last.file = expect
        /\ last.op = "read" =>
              last.data = SubSeq(expect, e.position - Len(last.data) + 1, e.position)

\* C7 witness: getFile found a write stream open, and returned the content
\* <<1, 2>> that the writes since the last flush produced.
C7_Witness ==
    /\ last.op = "getFile"
    /\ last.forced
    /\ last.file = <<1, 2>>

-----------------------------------------------------------------------------
(* OpenFiles.findRelPath *)

RECURSIVE TrimTrailingSlashes(_, _)
\* while (i > 0 && prefix[i - 1] == "/") --i
TrimTrailingSlashes(prefix, i) ==
    IF i > 0 /\ CharAt(prefix, i - 1) = "/" THEN TrimTrailingSlashes(prefix, i - 1) ELSE i

\* prefixMatches that leaves out the check for a complete path component
prefixMatches_AnyPrefix(prefix, path) ==
    IF CharAt(path, 0) # "/" /\ prefix = <<>> THEN TRUE
    ELSE StartsWith(path, prefix)

prefixMatches(prefix, path) ==
    IF CharAt(path, 0) # "/" /\ prefix = <<>> THEN TRUE
    ELSE IF ~StartsWith(path, prefix) THEN FALSE
    ELSE LET i == TrimTrailingSlashes(prefix, Len(prefix))
             lastChar == CharAt(path, i)
         IN lastChar = "/" \/ lastChar = "undefined"

\* lines 438-448: the preopen's path as it is compared with the query
StripPrefix(prefix, path) ==
    IF path # <<".">> /\ ~StartsWith(path, <<".", "/">>)
    THEN IF StartsWith(prefix, <<".", "/">>) THEN Slice(prefix, 2)
         ELSE IF prefix = <<".">> THEN Slice(prefix, 1)
         ELSE prefix
    ELSE prefix

RECURSIVE FindLoop(_, _, _, _, _)
\* for (let i = this._firstNonPreopenFd - 1; i >= FIRST_PREOPEN_FD; --i);
\* foundPre is kept as the fd it was read from, 0 = undefined
FindLoop(fls, i, path, foundPre, matchLen) ==
    IF i < FIRST_PREOPEN_FD
    THEN [err |-> "OK", foundPre |-> foundPre, matchLen |-> matchLen]
    ELSE LET g == get(fls, i) IN
         IF g.err # "OK" THEN [err |-> g.err, foundPre |-> 0, matchLen |-> 0]
         ELSE LET prefix == StripPrefix(g.entry.path, path) IN
              IF (foundPre = 0 \/ Len(prefix) > matchLen) /\ prefixMatches(prefix, path)
              THEN FindLoop(fls, i - 1, path, i, Len(prefix))
              ELSE FindLoop(fls, i - 1, path, foundPre, matchLen)

findRelPath(fls, fnp, path) ==
    LET l == FindLoop(fls, fnp - 1, path, 0, 0)
        computed == StripLeadingSlashes(Slice(path, l.matchLen))
    IN IF l.err # "OK"
       THEN [err |-> l.err, fd |-> 0, preOpen |-> NoEntry, relativePath |-> <<>>]
       ELSE IF l.foundPre = 0
       THEN [err |-> "Error", fd |-> 0, preOpen |-> NoEntry, relativePath |-> <<>>]
       ELSE [err |-> "OK", fd |-> l.foundPre, preOpen |-> fls[l.foundPre],
             relativePath |-> IF computed = <<>> THEN <<".">> ELSE computed]

\* the paths preopens are registered under:
\* "", ".", "./a", "/", "/a", "/a/", "/a/b", "a"
PreopenPaths ==
    { <<>>, <<".">>, <<".", "/", "a">>, <<"/">>, <<"/", "a">>, <<"/", "a", "/">>,
      <<"/", "a", "/", "b">>, <<"a">> }

\* a mapping has each key once
PreopenLists ==
    {l \in UNION {[1..k -> PreopenPaths] : k \in 1..MaxPreopens} :
        \A i, j \in DOMAIN l : i # j => l[i] # l[j]}

\* the queries: every string over / . a b up to MaxQueryLen, and
\* "/a/b/c", "/q", "./a/b", "a/b/c"
Queries ==
    StringsUpTo({"/", ".", "a", "b"}, MaxQueryLen)
        \cup { <<"/", "a", "/", "b", "/", "c">>, <<"/", "q">>,
               <<".", "/", "a", "/", "b">>, <<"a", "/", "b", "/", "c">> }

InitRel ==
    \E l \in PreopenLists :
        LET c == Construct([i \in DOMAIN l |-> [path |-> l[i], handle |-> RootHandle]]) IN
        /\ fs = (<<>> :> DirNode)
        /\ files = c.files
        /\ nextFd = c.nextFd
        /\ firstNonPreopenFd = c.nextFd
        /\ issued = DOMAIN c.files
        /\ expect = <<>>
        /\ last = [op |-> "new"]
        /\ IdleDir

\* findRelPath reads the table and changes nothing, so one call per table
\* covers every sequence of calls
FindRelPath ==
    \E path \in Queries :
        /\ last.op = "new"
        /\ LET r == findRelPath(files, firstNonPreopenFd, path) IN
           last' = [op |-> "findRelPath", path |-> path, err |-> r.err, fd |-> r.fd,
                    preOpen |-> r.preOpen, relativePath |-> r.relativePath]
        /\ UNCHANGED <<pending, tableVars, dirVars, hist>>

NextRel == FindRelPath

SpecRel == InitRel /\ [][NextRel]_vars

-----------------------------------------------------------------------------
(* Claims about findRelPath *)

PreopenFds == FIRST_PREOPEN_FD..(firstNonPreopenFd - 1)

\* the length of prefix without its trailing slashes
TrimmedLen(prefix) ==
    CHOOSE k \in 0..Len(prefix) :
        /\ \A j \in (k + 1)..Len(prefix) : prefix[j] = "/"
        /\ k = 0 \/ prefix[k] # "/"

\* a candidate prefix as the claim defines it
StartsAtComponent(prefix, path) ==
    /\ StartsWith(path, prefix)
    /\ \/ TrimmedLen(prefix) >= Len(path)
       \/ path[TrimmedLen(prefix) + 1] = "/"

\* ... and with the rule the code adds: the empty prefix covers every path
\* that does not start with a slash
StartsAtComponentOrRelative(prefix, path) ==
    \/ StartsAtComponent(prefix, path)
    \/ prefix = <<>> /\ (path = <<>> \/ path[1] # "/")

\* the remainder: the query without its first n characters and without leading
\* slashes, "." if that is empty
Remainder(path, n) ==
    LET rest == SubSeq(path, n + 1, Len(path))
        k == CHOOSE j \in 0..Len(rest) :
                /\ \A m \in 1..j : rest[m] = "/"
                /\ j = Len(rest) \/ rest[j + 1] # "/"
        cut == SubSeq(rest, k + 1, Len(rest))
    IN IF cut = <<>> THEN <<".">> ELSE cut

\* the prefix preopen i is compared by in the last findRelPath call
PrefixOf(i) == StripPrefix(files[i].path, last.path)

\* what the selection rule gives for the last findRelPath call, cands being
\* the fds of the candidate preopens
SelectionRule(cands) ==
    LET best == CHOOSE i \in cands :
                    \A j \in cands :
                        \/ Len(PrefixOf(j)) < Len(PrefixOf(i))
                        \/ Len(PrefixOf(j)) = Len(PrefixOf(i)) /\ j <= i
    IN IF cands = {} THEN last.err = "Error"
       ELSE /\ last.err = "OK"
            /\ last.fd = best
            /\ last.preOpen = files[best]
            /\ last.relativePath = Remainder(last.path, Len(PrefixOf(best)))

\* C8 as claimed: the candidates are the preopens whose path the query starts
\* with at a component boundary; the longest wins, the most recent among equal
\* lengths; the remainder has prefix and leading slashes removed; no candidate fails.
C8_LongestCandidateWins ==
    last.op = "findRelPath" =>
        SelectionRule({i \in PreopenFds : StartsAtComponent(PrefixOf(i), last.path)})

\* C8 amended: as claimed, with one more kind of candidate: an empty prefix (a
\* preopen "", or "." or "./" after stripping) is a candidate for every query
\* that does not start with "/".
C8_LongestCandidateWinsWithEmptyPrefix ==
    last.op = "findRelPath" =>
        SelectionRule({i \in PreopenFds : StartsAtComponentOrRelative(PrefixOf(i), last.path)})

\* C8 witness: with preopens "/a" then "/a/b", "/a/b/c" resolved to "/a/b" and "c".
C8_Witness ==
    /\ last.op = "findRelPath"
    /\ firstNonPreopenFd = 5
    /\ files[3].path = <<"/", "a">>
    /\ files[4].path = <<"/", "a", "/", "b">>
    /\ last.path = <<"/", "a", "/", "b", "/", "c">>
    /\ last.fd = 4
    /\ last.relativePath = <<"c">>

-----------------------------------------------------------------------------
(* One OpenDirectory: _resolve and getFileOrDir *)

\* the directory is the root of an empty backend, or the directory x of a
\* backend that has x/x/y (a file) inside it and a file y beside it
DirScenarios ==
    { [tree |-> (<<>> :> DirNode), handle |-> RootHandle],
      [tree |-> (<<>> :> DirNode) @@ (<<<<"x">>>> :> DirNode)
                    @@ (<<<<"y">>>> :> FileNode(<<1>>))
                    @@ (<<<<"x">>, <<"x">>>> :> DirNode)
                    @@ (<<<<"x">>, <<"x">>, <<"y">>>> :> FileNode(<<1>>)),
       handle |-> [kind |-> "directory", node |-> <<<<"x">>>>]] }

\* the paths given to _resolve: every string over / . x up to MaxPathLen, and
\* "x/../../y", "./x/./y", "x/y", "x/x/y", "../y"
ResolvePaths ==
    StringsUpTo({"/", ".", "x"}, MaxPathLen)
        \cup { <<"x", "/", ".", ".", "/", ".", ".", "/", "y">>,
               <<".", "/", "x", "/", ".", "/", "y">>,
               <<"x", "/", "y">>,
               <<"x", "/", "x", "/", "y">>,
               <<".", ".", "/", "y">> }

\* the paths given to getFileOrDir: "", ".", "x", "x/y", "./x/./y", "x/..", "../y", "/x"
DirPaths ==
    { <<>>, <<".">>, <<"x">>, <<"x", "/", "y">>,
      <<".", "/", "x", "/", ".", "/", "y">>,
      <<"x", "/", ".", ".">>, <<".", ".", "/", "y">>, <<"/", "x">> }

DirFlags ==
    { {}, {Directory}, {Create}, {Create, Directory}, {Directory, Truncate},
      {Create, Exclusive} }

Modes == {File, Dir, FileOrDirAny}

\* the OpenDirectory under test is the one preopen of the table
ThisDir == files[FIRST_PREOPEN_FD]

InitDir ==
    \E sc \in DirScenarios :
        LET c == Construct(<< [path |-> <<"/">>, handle |-> sc.handle] >>) IN
        /\ fs = sc.tree
        /\ files = c.files
        /\ nextFd = c.nextFd
        /\ firstNonPreopenFd = c.nextFd
        /\ issued = DOMAIN c.files
        /\ expect = <<>>
        /\ last = [op |-> "new"]
        /\ IdleDir

Resolve ==
    \E path \in ResolvePaths :
        /\ \E r \in {_resolve(fs, ThisDir.handle, path)} :
           last' = [op |-> "_resolve", path |-> path, err |-> r.err, parent |-> r.parent,
                    name |-> r.name, calls |-> r.calls]
        /\ UNCHANGED <<pending, tableVars, dirVars, hist>>

GetFileOrDir ==
    \E path \in DirPaths, mode \in Modes, openFlags \in DirFlags :
        \E r \in {getFileOrDir(fs, ThisDir.handle, path, mode, openFlags)} :
        /\ fs' = r.fs
        /\ last' = [op |-> "getFileOrDir", path |-> path, mode |-> mode,
                    openFlags |-> openFlags, err |-> r.err, handle |-> r.handle,
                    calls |-> r.calls]
        /\ UNCHANGED <<pending, files, nextFd, firstNonPreopenFd, issued, expect,
                       dirVars, hist>>

NextDir == Resolve \/ GetFileOrDir

SpecDir == InitDir /\ [][NextDir]_vars

-----------------------------------------------------------------------------
(* Claims about _resolve and getFileOrDir *)

\* the segments the resolution processes
Segments(path) == IF path # <<>> THEN Split(path) ELSE <<>>

\* the number of segments retained after the first k segments, were ".."
\* allowed to take it below zero
Retained(segs, k) ==
    Cardinality({i \in 1..k : segs[i] # <<".">> /\ segs[i] # <<".", ".">>})
        - Cardinality({i \in 1..k : segs[i] = <<".", ".">>})

\* some ".." comes at a point where no segment is retained
AscendsAbove(segs) == \E k \in 1..Len(segs) : Retained(segs, k) < 0

WithoutDots(segs) == SelectSeq(segs, LAMBDA item : item # <<".">>)

\* C9: a path with a ".." at a point where no segment is retained fails with
\* NotCapable and without a backend lookup (and no other path fails so); a
\* successful resolution gives a parent inside the directory it started from;
\* and every path with the same segments apart from "." segments resolves to
\* the same error, parent handle and leaf name.
C9_ResolveStaysInsideAndIgnoresDots ==
    last.op = "_resolve" =>
        LET segs == Segments(last.path) IN
        /\ AscendsAbove(segs) => last.err = "NOTCAPABLE" /\ last.calls = <<>>
        /\ last.err = "NOTCAPABLE" => AscendsAbove(segs)
        /\ last.err = "OK" =>
              /\ IsPrefix(ThisDir.handle.node, last.parent.node)
              /\ last.parent.node \in DOMAIN fs
              /\ last.parent.kind = "directory"
        /\ \A q \in ResolvePaths :
              WithoutDots(Segments(q)) = WithoutDots(segs) =>
                  LET r == _resolve(fs, ThisDir.handle, q) IN
                  /\ r.err = last.err
                  /\ r.parent = last.parent
                  /\ r.name = last.name

\* C9 witness: in the directory x, which has a file y beside it, "x/../../y"
\* was refused with NotCapable.
C9_Witness ==
    /\ last.op = "_resolve"
    /\ ThisDir.handle.node = <<<<"x">>>>
    /\ last.path = <<"x", "/", ".", ".", "/", ".", ".", "/", "y">>
    /\ last.err = "NOTCAPABLE"
    /\ last.calls = <<>>

DirectoryFlagWithFileMode ==
    /\ last.op = "getFileOrDir"
    /\ Directory \in last.openFlags
    /\ last.mode = File

\* C10 as claimed: the Directory flag with a File-only mode is rejected with
\* the invalid-argument error and without a backend call, for every path.
C10_DirectoryFlagRejectedBeforeBackend ==
    DirectoryFlagWithFileMode => last.err = "TypeError" /\ last.calls = <<>>

\* C10 amended: the Directory flag with a File-only mode always fails and
\* leaves the backend unchanged, after the path has been resolved: the only
\* backend calls are the resolution's lookups of the directories before the
\* leaf (none for a path of one segment), a failing resolution reports its own
\* error, a path that denotes the directory itself reports IsDirectory, and
\* every other path reports the invalid-argument error.
C10_DirectoryFlagRejectedAfterResolve ==
    [][ DirectoryFlagWithFileMode' =>
          LET r == _resolve(fs, ThisDir.handle, last'.path) IN
          /\ fs' = fs
          /\ last'.err # "OK"
          /\ last'.handle = NoHandle
          /\ last'.calls = r.calls
          /\ \A i \in DOMAIN last'.calls :
                last'.calls[i].fn = "getDirectoryHandle" /\ ~last'.calls[i].create
          /\ Len(last'.calls) < Max(Len(Segments(last'.path)), 1)
          /\ last'.err = IF r.err # "OK" THEN r.err
                         ELSE IF r.name = Undefined THEN "ISDIR"
                         ELSE "TypeError" ]_vars

\* C10 witness: Directory flag and File mode on "x/y" in a directory that has
\* x: refused with the invalid-argument error after one lookup, of x.
C10_Witness ==
    /\ DirectoryFlagWithFileMode
    /\ last.path = <<"x", "/", "y">>
    /\ last.err = "TypeError"
    /\ Len(last.calls) = 1
    /\ last.calls[1].name = <<"x">>

-----------------------------------------------------------------------------
(* Claims about open: Truncate *)

\* the node of the leaf that path names under the directory at dirfd
LeafNode(fsys, fls, dirfd, path) ==
    LET r == _resolve(fsys, fls[dirfd].handle, path) IN Append(r.parent.node, r.name)

-----------------------------------------------------------------------------
(* The fd table with its lookups: get, getPreOpen, findRelPath *)

\* the queries given to findRelPath on a table in use: "/a", "/a/b", "/a/b/c", "/q"
LookupQueries ==
    { <<"/", "a">>, <<"/", "a", "/", "b">>, <<"/", "a", "/", "b", "/", "c">>,
      <<"/", "q">> }

\* open(preOpen, "a", Create): opens the child a, a file unless a is a directory
OpenChild ==
    \E dirfd \in Fds :
        /\ nextFd < MaxFd
        /\ OpenCall(dirfd, <<"a">>, {Create})

Get ==
    \E fd \in Fds :
        /\ \E r \in {get(files, fd)} :
              last' = [op |-> "get", fd |-> fd, err |-> r.err, entry |-> r.entry]
        /\ UNCHANGED <<tableVars, dirVars, hist, pending>>

GetPreOpen ==
    \E fd \in Fds :
        /\ \E r \in {getPreOpen(files, firstNonPreopenFd, fd)} :
              last' = [op |-> "getPreOpen", fd |-> fd, err |-> r.err, entry |-> r.entry]
        /\ UNCHANGED <<tableVars, dirVars, hist, pending>>

FindRelPathInUse ==
    \E path \in LookupQueries :
        /\ \E r \in {findRelPath(files, firstNonPreopenFd, path)} :
              last' = [op |-> "findRelPath", path |-> path, err |-> r.err, fd |-> r.fd,
                       preOpen |-> r.preOpen, relativePath |-> r.relativePath]
        /\ UNCHANGED <<tableVars, dirVars, hist, pending>>

NextLookup == OpenChild \/ Close \/ Renumber \/ Get \/ GetPreOpen \/ FindRelPathInUse

SpecLookup == Init /\ [][NextLookup]_vars

-----------------------------------------------------------------------------
(* Claims about the lookups *)

\* C12: get(fd) fails with BadDescriptor for every fd no open or construction
\* has handed out and for every fd that was handed out and is no longer in the
\* table; such an fd never comes back into the table, and a successful close(fd)
\* makes fd one of them; getPreOpen(fd) fails with BadDescriptor for every fd
\* below the first preopen fd or from the first non-preopen fd on, occupied or not.
C12_AbsentFdsAreBadDescriptors ==
    [][ /\ \A fd \in Fds \ issued : fd \notin DOMAIN files
        /\ \A fd \in issued \ DOMAIN files : fd \notin DOMAIN files'
        /\ (last'.op = "close" /\ last'.err = "OK") => last'.fd \notin DOMAIN files'
        /\ (last'.op = "get" /\ last'.fd \notin DOMAIN files) => last'.err = "BADF"
        /\ (last'.op = "get" /\ last'.err # "BADF") =>
                last'.err = "OK" /\ last'.entry = files[last'.fd]
        /\ (last'.op = "getPreOpen"
               /\ (last'.fd < FIRST_PREOPEN_FD \/ last'.fd >= firstNonPreopenFd)) =>
                last'.err = "BADF" ]_vars

\* C12 witness: getPreOpen failed with BadDescriptor on an fd that an open had
\* returned and that is still in the table.
C12_Witness ==
    /\ last.op = "getPreOpen"
    /\ last.err = "BADF"
    /\ last.fd >= firstNonPreopenFd
    /\ last.fd \in DOMAIN files

\* the preOpen mapping the table was constructed with: Init draws it from
\* PreOpens, whose members differ in length
ConstructedWith ==
    CHOOSE preOpen \in PreOpens : Len(preOpen) = firstNonPreopenFd - FIRST_PREOPEN_FD

\* the table as the constructor left it
FreshFiles == Construct(ConstructedWith).files

\* C14 as claimed: whatever open, close and renumber calls came before,
\* findRelPath(path) returns the preopen and remainder, or the lookup failure,
\* that it returns on the freshly constructed table, and changes no table state.
C14_FindRelPathIgnoresTableUse ==
    [][ last'.op = "findRelPath" =>
            LET fresh == findRelPath(FreshFiles, firstNonPreopenFd, last'.path) IN
            /\ last'.err = fresh.err
            /\ last'.preOpen = fresh.preOpen
            /\ last'.relativePath = fresh.relativePath
            /\ files' = files
            /\ nextFd' = nextFd ]_vars

\* C19 as claimed: every successful getPreOpen(fd) returns a Directory entry,
\* the one the constructor registered under fd.
C19_GetPreOpenReturnsRegisteredRoot ==
    (last.op = "getPreOpen" /\ last.err = "OK") =>
        /\ ~last.entry.isFile
        /\ last.entry = FreshFiles[last.fd]

-----------------------------------------------------------------------------
(* Claims about getFileOrDir on the directory itself *)

\* the path of the last getFileOrDir call denotes the directory itself
DenotesDirectoryItself ==
    LET r == _resolve(fs, ThisDir.handle, last.path) IN
    r.err = "OK" /\ r.name = Undefined

\* C13 as claimed: on a path that denotes the directory itself, with a mode that
\* permits Directory, getFileOrDir fails with AlreadyExists only for Create
\* together with Exclusive, fails with IsDirectory for Truncate, and otherwise
\* (Create alone included) returns the directory's own handle.
C13_DirectoryItselfByFlags ==
    (last.op = "getFileOrDir" /\ ModeHas(last.mode, Dir) /\ DenotesDirectoryItself) =>
        IF {Create, Exclusive} \subseteq last.openFlags THEN last.err = "EXIST"
        ELSE IF Truncate \in last.openFlags THEN last.err = "ISDIR"
        ELSE last.err = "OK" /\ last.handle = ThisDir.handle

-----------------------------------------------------------------------------
(* Claims about failing calls *)

\* C18 as claimed: a renumber that fails with BadDescriptor leaves the table as
\* it was: every entry is still under its fd, and no entry has been closed.
C18_FailedRenumberChangesNothing ==
    [][ (last'.op = "renumber" /\ last'.err = "BADF") =>
            files' = files /\ fs' = fs ]_vars

\* C20 as claimed: an open that fails with IsDirectory, NotDirectory,
\* AlreadyExists or NotCapable leaves the backend and the fd table unchanged,
\* whatever the flags.
C20_FailedOpenChangesNothing ==
    [][ (last'.op = "open" /\ last'.err \in {"ISDIR", "NOTDIR", "EXIST", "NOTCAPABLE"}) =>
            /\ fs' = fs
            /\ files' = files
            /\ nextFd' = nextFd ]_vars

-----------------------------------------------------------------------------
(* The life of the entries: a table with an open file that is written to *)

\* open(preOpen, FileName): one more OpenFile on the file
OpenAgain ==
    \E dirfd \in Fds :
        /\ nextFd <= firstNonPreopenFd + MaxOpens
        /\ OpenCall(dirfd, FileName, {})

\* write of one byte
WriteByte ==
    \E fd \in OpenFileFds : WriteCall(fd, <<1>>)

NextLife == OpenAgain \/ WriteByte \/ Close \/ Renumber

SpecLife == InitFile /\ [][NextLife]_vars

\* the fds whose entry is in the table before the step and not after it
\* (an entry is told from the others by its id)
Leaving ==
    {fd \in DOMAIN files : \A g \in DOMAIN files' : files'[g].id # files[fd].id}

\* C15: an entry leaves the table only in a close(fd), as the entry at fd, or
\* in a renumber(from, to), as the entry at to; a File entry that leaves has its
\* write stream, if it has one, closed: the stream's content is the file's
\* committed content; close(fd) with no entry at fd fails with BadDescriptor
\* and changes nothing.
C15_EntriesLeaveByCloseOrEviction ==
    [][ /\ \A fd \in Leaving :
              /\ \/ last'.op = "close" /\ last'.fd = fd
                 \/ last'.op = "renumber" /\ last'.to = fd
              /\ (files[fd].isFile /\ files[fd].writer.open) =>
                    fs'[files[fd].handle.node].data = files[fd].writer.buf
        /\ (last'.op = "close" /\ last'.err = "OK") => Leaving = {last'.fd}
        /\ (last'.op = "close" /\ last'.fd \notin DOMAIN files) =>
              /\ last'.err = "BADF"
              /\ files' = files
              /\ fs' = fs ]_vars

\* C15 witness: the file entry at fd 4, written to and never flushed, was
\* closed, and the file holds what was written.
C15_Witness ==
    /\ last.op = "close"
    /\ last.fd = 4
    /\ last.err = "OK"
    /\ DOMAIN files = {3}
    /\ files[3].id = 3
    /\ nextFd = 5
    /\ fs[<<FileName>>].data \notin InitialContents

-----------------------------------------------------------------------------
(* OpenFiles.open as an async function: calls in flight, interleaved at    *)
(* their awaits. Each step runs one call from one await to its next: the   *)
(* backend call awaited and the code after it up to the next backend call. *)

\* a call not yet made. exists is the local of the Create/Exclusive probe;
\* created and early are history: the call has made its creating backend call,
\* and its probe ended before any call on the same leaf had made one.
IdleCall ==
    [pc |-> "idle", dirfd |-> 0, path |-> <<>>, openFlags |-> {}, storedPath |-> <<>>,
     mode |-> FileOrDirAny, stage |-> "none", parent |-> NoHandle, rest |-> <<>>,
     name |-> Undefined, exists |-> TRUE, handle |-> NoHandle, err |-> "OK", fd |-> 0,
     created |-> FALSE, early |-> FALSE]

Calls == 1..MaxCalls

\* the paths and flags of the calls in flight: "a", "a/b"
AsyncPaths == { <<"a">>, <<"a", "/", "b">> }
AsyncFlags == { {}, {Create, Exclusive}, {Create, Exclusive, Directory}, {Create, Truncate} }

\* the leaf a call opens
Target(p) == Append(p.parent.node, p.name)

\* the call throws e
Throw(p, e) == [p EXCEPT !.pc = "failed", !.err = e]

\* openWithCreate(create) is entered: its first backend call is the next await
Enter(p, stage) ==
    [p EXCEPT !.stage = stage,
              !.pc = IF ModeHas(p.mode, File) THEN "getFileHandle" ELSE "getDirectoryHandle"]

\* lines 138-203: from the return of _resolve to the first openWithCreate
AfterResolve(p) ==
    IF p.name = Undefined
    THEN IF ModeHas(p.mode, Dir)
         THEN IF p.openFlags \cap {Create, Exclusive} # {} THEN Throw(p, "EXIST")
              ELSE IF Truncate \in p.openFlags THEN Throw(p, "ISDIR")
              ELSE [p EXCEPT !.pc = "_add", !.handle = p.parent]
         ELSE Throw(p, "ISDIR")
    ELSE IF Directory \in p.openFlags /\ ~ModeHas(p.mode, Dir) THEN Throw(p, "TypeError")
    ELSE Enter([p EXCEPT !.mode = IF Directory \in p.openFlags THEN Dir ELSE p.mode],
               IF Create \in p.openFlags
               THEN IF Exclusive \in p.openFlags THEN "probe" ELSE "create"
               ELSE "lookup")

\* the handle openWithCreate(true) returns is taken as existence under Exclusive
Returned_ExclusiveRefusesCreated(p, handle) ==
    IF Exclusive \in p.openFlags THEN Throw(p, "EXIST")
    ELSE IF Truncate \in p.openFlags
    THEN IF handle.kind = "directory" THEN Throw(p, "ISDIR")
         ELSE [p EXCEPT !.pc = "createWritable", !.handle = handle]
    ELSE [p EXCEPT !.pc = "_add", !.handle = handle]

\* openWithCreate returned handle: lines 196-198 after the probe, lines 204-213
\* after the open proper
Returned(p, handle) ==
    IF p.stage = "probe" THEN Throw(p, "EXIST")
    ELSE IF Truncate \in p.openFlags
    THEN IF handle.kind = "directory" THEN Throw(p, "ISDIR")
         ELSE [p EXCEPT !.pc = "createWritable", !.handle = handle]
    ELSE [p EXCEPT !.pc = "_add", !.handle = handle]

\* openWithCreate threw e: the probe's catch takes it as absence (lines 193-195, 200)
Threw(p, e) ==
    IF p.stage = "probe" THEN Enter([p EXCEPT !.exists = FALSE], "create")
    ELSE Throw(p, e)

\* lines 155-165: after await parent.getFileHandle(name, { create })
AfterGetFileHandle(p, r) ==
    IF r.err = "OK" THEN Returned(p, r.handle)
    ELSE IF r.err = "TypeMismatchError"
    THEN IF ~ModeHas(p.mode, Dir) THEN Threw(p, "ISDIR")
         ELSE [p EXCEPT !.pc = "getDirectoryHandle"]
    ELSE Threw(p, r.err)

\* lines 167-176: after await parent.getDirectoryHandle(name, { create })
AfterGetDirectoryHandle(p, r) ==
    IF r.err = "OK" THEN Returned(p, r.handle)
    ELSE IF r.err = "TypeMismatchError" THEN Threw(p, "NOTDIR")
    ELSE Threw(p, r.err)

\* history: q has made its creating backend call if this step was one, and a
\* probe that ends in this step is early if no call on the same leaf has made one
Noted(c, p, q) ==
    [q EXCEPT !.created = p.created \/ p.stage = "create",
              !.early = IF p.stage = "probe" /\ q.stage # "probe"
                        THEN \A d \in Calls \ {c} :
                                ~(pending[d].created /\ pending[d].name # Undefined
                                    /\ Target(pending[d]) = Target(p))
                        ELSE p.early]

\* what the caller of call c sees when it ends
Ended(c, q) == [op |-> "open", call |-> c, err |-> q.err, fd |-> q.fd]

InitAsync ==
    \E tree \in InitialTrees, preOpen \in PreOpens :
        \E c \in {Construct(preOpen)} :
        /\ fs = tree
        /\ files = c.files
        /\ nextFd = c.nextFd
        /\ firstNonPreopenFd = c.nextFd
        /\ issued = DOMAIN c.files
        /\ expect = <<>>
        /\ last = [op |-> "new"]
        /\ dirEntries = <<>>
        /\ heap = <<>>
        /\ currentIter = 0
        /\ iterators = <<>>
        /\ hist = <<>>
        /\ pending = [c2 \in Calls |-> IdleCall]

\* call c goes on as q; the caller sees the call end when it has thrown
Goes(c, q) ==
    /\ pending' = [pending EXCEPT ![c] = q]
    /\ last' = IF q.pc = "failed" THEN Ended(c, q) ELSE last

\* open(preOpen, path, openFlags) is called: the stored path is built, and
\* getFileOrDir and _resolve run up to the first await (lines 362-363, 135, 230-241)
Begin ==
    \E c \in Calls, dirfd \in Fds, path \in AsyncPaths, openFlags \in AsyncFlags :
        /\ pending[c].pc = "idle"
        /\ \A d \in 1..(c - 1) : pending[d].pc # "idle"
        /\ getPreOpen(files, firstNonPreopenFd, dirfd).err = "OK"
        /\ ~files[dirfd].isFile
        /\ \E n \in {ResolveParts(IF path # <<>> THEN Split(path) ELSE <<>>, <<>>)} :
           \E p \in {[IdleCall EXCEPT !.dirfd = dirfd, !.path = path,
                                      !.openFlags = openFlags,
                                      !.storedPath = files[dirfd].path \o <<"/">> \o path]} :
              Goes(c, IF n.err # "OK" THEN Throw(p, n.err)
                      ELSE [p EXCEPT !.pc = "_resolve",
                                     !.parent = files[dirfd].handle,
                                     !.rest = IF n.parts = <<>> THEN <<>> ELSE Front(n.parts),
                                     !.name = IF n.parts = <<>> THEN Undefined
                                              ELSE Last(n.parts)])
        /\ UNCHANGED <<fs, files, nextFd, issued, firstNonPreopenFd, expect, dirVars, hist>>

\* _resolve: parent = await parent.getDirectoryHandle(item) (lines 242-244)
Walk ==
    \E c \in Calls :
        /\ pending[c].pc = "_resolve"
        /\ pending[c].rest # <<>>
        /\ \E p \in {pending[c]} :
           \E r \in {getDirectoryHandle(fs, p.parent, Head(p.rest), FALSE)} :
              Goes(c, IF r.err # "OK" THEN Throw(p, r.err)
                      ELSE [p EXCEPT !.parent = r.handle, !.rest = Tail(p.rest)])
        /\ UNCHANGED <<fs, files, nextFd, issued, firstNonPreopenFd, expect, dirVars, hist>>

\* await this._resolve(path) resumes in getFileOrDir (line 135)
Resolved ==
    \E c \in Calls :
        /\ pending[c].pc = "_resolve"
        /\ pending[c].rest = <<>>
        /\ Goes(c, AfterResolve(pending[c]))
        /\ UNCHANGED <<fs, files, nextFd, issued, firstNonPreopenFd, expect, dirVars, hist>>

\* await parent.getFileHandle(name, { create }) (line 155)
GetFileHandle ==
    \E c \in Calls :
        /\ pending[c].pc = "getFileHandle"
        /\ \E p \in {pending[c]} :
           \E r \in {getFileHandle(fs, p.parent, p.name, p.stage = "create")} :
              /\ fs' = r.fs
              /\ Goes(c, Noted(c, p, AfterGetFileHandle(p, r)))
        /\ UNCHANGED <<files, nextFd, issued, firstNonPreopenFd, expect, dirVars, hist>>

\* await parent.getDirectoryHandle(name, { create }) (line 168)
GetDirectoryHandle ==
    \E c \in Calls :
        /\ pending[c].pc = "getDirectoryHandle"
        /\ \E p \in {pending[c]} :
           \E r \in {getDirectoryHandle(fs, p.parent, p.name, p.stage = "create")} :
              /\ fs' = r.fs
              /\ Goes(c, Noted(c, p, AfterGetDirectoryHandle(p, r)))
        /\ UNCHANGED <<files, nextFd, issued, firstNonPreopenFd, expect, dirVars, hist>>

\* await handle.createWritable({ keepExistingData: false }) (lines 208-210)
CreateWritable ==
    \E c \in Calls :
        /\ pending[c].pc = "createWritable"
        /\ Goes(c, [pending[c] EXCEPT !.pc = "close"])
        /\ UNCHANGED <<fs, files, nextFd, issued, firstNonPreopenFd, expect, dirVars, hist>>

\* await writable.close() (line 211): the empty stream is committed
CloseWritable ==
    \E c \in Calls :
        /\ pending[c].pc = "close"
        /\ fs' = [fs EXCEPT ![pending[c].handle.node].data = <<>>]
        /\ Goes(c, [pending[c] EXCEPT !.pc = "_add"])
        /\ UNCHANGED <<files, nextFd, issued, firstNonPreopenFd, expect, dirVars, hist>>

\* open stores the entry under this._nextFd and leaves _nextFd as it was
Add_NextFdNotAdvanced ==
    \E c \in Calls :
        /\ pending[c].pc = "_add"
        /\ \E a \in {_add(files, nextFd, pending[c].storedPath, pending[c].handle)} :
           \E q \in {[pending[c] EXCEPT !.pc = "done", !.fd = a.fd]} :
              /\ files' = a.files
              /\ nextFd' = nextFd
              /\ issued' = issued \cup {a.fd}
              /\ pending' = [pending EXCEPT ![c] = q]
              /\ last' = Ended(c, q)
        /\ UNCHANGED <<fs, firstNonPreopenFd, expect, dirVars, hist>>

\* await preOpen.getFileOrDir(...) resumes in open: this._add(path, handle) (lines 361-364)
Add ==
    \E c \in Calls :
        /\ pending[c].pc = "_add"
        /\ \E a \in {_add(files, nextFd, pending[c].storedPath, pending[c].handle)} :
           \E q \in {[pending[c] EXCEPT !.pc = "done", !.fd = a.fd]} :
              /\ files' = a.files
              /\ nextFd' = a.nextFd
              /\ issued' = issued \cup {a.fd}
              /\ pending' = [pending EXCEPT ![c] = q]
              /\ last' = Ended(c, q)
        /\ UNCHANGED <<fs, firstNonPreopenFd, expect, dirVars, hist>>

NextAsync ==
    \/ Begin \/ Walk \/ Resolved \/ GetFileHandle \/ GetDirectoryHandle
    \/ CreateWritable \/ CloseWritable \/ Add

SpecAsync == InitAsync /\ [][NextAsync]_vars

\* the calls with Create and Exclusive, opening a file or a directory, whose
\* probe ended before any call had created their leaf, and that have ended
EarlyExclusiveEnded ==
    { c \in Calls : /\ {Create, Exclusive} \subseteq pending[c].openFlags
                    /\ Directory \notin pending[c].openFlags
                    /\ pending[c].early
                    /\ pending[c].pc \in {"done", "failed"} }

\* C16: the Create+Exclusive probe is not atomic: an open with Create and
\* Exclusive whose probe found the leaf absent before any other call created
\* it never fails with AlreadyExists, whatever is created on that leaf between
\* its probe and its own creation; when it ends it has succeeded, so two such
\* opens of one absent path both succeed, on the same backend entry and with
\* different fds.
C16_ExclusiveProbeNotAtomic ==
    /\ \A c \in Calls : pending[c].early => pending[c].err # "EXIST"
    /\ \A c \in EarlyExclusiveEnded :
          /\ pending[c].pc = "done"
          /\ pending[c].err = "OK"
    /\ \A c, d \in EarlyExclusiveEnded :
          (c # d /\ Target(pending[c]) = Target(pending[d])) =>
              /\ pending[c].handle = pending[d].handle
              /\ pending[c].fd # pending[d].fd

\* C16 witness: two opens of the absent "a" with Create+Exclusive, both probes
\* before either creation, have both succeeded.
C16_Witness ==
    /\ EarlyExclusiveEnded = {1, 2}
    /\ pending[1].path = <<"a">>
    /\ pending[2].path = <<"a">>
    /\ pending[1].openFlags = {Create, Exclusive}
    /\ pending[2].openFlags = {Create, Exclusive}
    /\ pending[1].pc = "done"
    /\ pending[2].pc = "done"
    /\ last.op = "open"
    /\ last.err = "OK"

\* C17: an open that returns, however the opens in flight were interleaved,
\* returns an fd that was free and never issued before and that no other
\* returned open has; the new entry, with the call's path and handle, is stored
\* under that fd, and every entry that was in the table is unchanged.
C17_ConcurrentOpensGetDistinctFds ==
    [][ \A c \in Calls :
          (pending[c].pc # "done" /\ pending'[c].pc = "done") =>
              /\ last' = [op |-> "open", call |-> c, err |-> "OK", fd |-> pending'[c].fd]
              /\ pending'[c].fd \notin DOMAIN files
              /\ pending'[c].fd \notin issued
              /\ \A d \in Calls \ {c} :
                    pending[d].pc = "done" => pending[d].fd # pending'[c].fd
              /\ pending'[c].fd \in DOMAIN files'
              /\ files'[pending'[c].fd].path = pending'[c].storedPath
              /\ files'[pending'[c].fd].handle = pending'[c].handle
              /\ DOMAIN files' = DOMAIN files \cup {pending'[c].fd}
              /\ \A fd \in DOMAIN files : files'[fd] = files[fd] ]_vars

\* C17 witness: two opens were in flight together, the one made second
\* returned first, and both have returned, with fds 4 and 5.
C17_Witness ==
    /\ pending[1].pc = "done"
    /\ pending[2].pc = "done"
    /\ pending[2].fd = firstNonPreopenFd
    /\ pending[1].fd = firstNonPreopenFd + 1
    /\ pending[1].path # pending[2].path
    /\ DOMAIN files = PreopenFds \cup {pending[1].fd, pending[2].fd}

=============================================================================
